---- MODULE Spec2Model ----
(***************************************************************************)
(* Model of the primal-dual active-set solver for l1 trend filtering,      *)
(* src/spatialDenoising/l1tf/solvers/C_pdas/pdas_sg2.c.                    *)
(*                                                                         *)
(* C doubles are modelled as exact rationals <<numerator, denominator>>    *)
(* in lowest terms with a positive denominator; C ints as integers.        *)
(* Arrays are functions on 0..len-1, as they are indexed in the source.    *)
(* Every variable is indexed by the invocation of active_set it belongs    *)
(* to, except the file-scope pointer vio_fitness and the heap it points    *)
(* into, which all invocations share.                                      *)
(***************************************************************************)
EXTENDS Integers, Sequences, FiniteSets, TLC

(***************************************************************************)
(* Bounds of the model.                                                    *)
(***************************************************************************)
MaxN == 5
MaxIter == 3
MaxM == 2
MaxNBand == 7

(***************************************************************************)
(* double arithmetic.                                                      *)
(***************************************************************************)
RECURSIVE GCD(_, _)
GCD(a, b) == IF b = 0 THEN a ELSE GCD(b, a % b)

AbsI(a) == IF a < 0 THEN -a ELSE a

Q(nu, de) ==
  LET s == IF de < 0 THEN -1 ELSE 1
      g == GCD(AbsI(nu), AbsI(de))
  IN  <<(s * nu) \div g, (s * de) \div g>>

Zero == <<0, 1>>
One == <<1, 1>>
MinusOne == <<-1, 1>>
Undef == <<0, 0>>

DInt(k) == <<k, 1>>
DAdd(a, b) == Q(a[1] * b[2] + b[1] * a[2], a[2] * b[2])
DSub(a, b) == Q(a[1] * b[2] - b[1] * a[2], a[2] * b[2])
DNeg(a) == <<-a[1], a[2]>>
DMul(a, b) == Q(a[1] * b[1], a[2] * b[2])
DDiv(a, b) == Q(a[1] * b[2], a[2] * b[1])
DLt(a, b) == a[1] * b[2] < b[1] * a[2]
DGt(a, b) == DLt(b, a)
fabs(a) == <<AbsI(a[1]), a[2]>>

\* #define max(x,y) ((x)>(y)?(x):(y)) and min, on doubles
max(a, b) == IF DGt(a, b) THEN a ELSE b
min(a, b) == IF DLt(a, b) THEN a ELSE b

\* round() of a non-negative double, cast to int: halves round away from zero
round(a) == (2 * a[1] + a[2]) \div (2 * a[2])

\* 1 / n_vio on two ints: C integer division, then converted to double
IntDiv(a, b) == DInt(a \div b)

\* An array value: the function f tabulated over its index range.
Array(f) == f @@ <<>>

(***************************************************************************)
(* Matrix operators.                                                       *)
(***************************************************************************)
\* Dx: y[i] = -x[i] + x[i+1] + x[i+1] - x[i+2], i = 0..n-3
Dx(nn, xx) ==
  Array([i \in 0..(nn - 3) |->
           DSub(DAdd(DAdd(DNeg(xx[i]), xx[i + 1]), xx[i + 1]), xx[i + 2])])

(***************************************************************************)
(* update_primal: x = y - lambda * D' * z, the loop of the source unrolled *)
(* by output index (the pointers x, y, z advance as in the source).        *)
(***************************************************************************)
update_primal(nn, yy, zz, lam) ==
  Array([j \in 0..(nn - 1) |->
     IF j = 0 THEN DAdd(yy[0], DMul(zz[0], lam))
     ELSE IF j = 1 THEN DAdd(yy[1], DMul(DSub(DSub(zz[1], zz[0]), zz[0]), lam))
     ELSE IF j < nn - 2
       THEN DAdd(yy[j], DMul(DAdd(DSub(DSub(zz[j - 2], zz[j - 1]), zz[j - 1]), zz[j]), lam))
     ELSE IF j = nn - 2
       THEN DAdd(yy[j], DMul(DSub(DSub(zz[nn - 4], zz[nn - 3]), zz[nn - 3]), lam))
     ELSE DAdd(yy[j], DMul(zz[nn - 3], lam))])

(***************************************************************************)
(* update_dual.                                                            *)
(***************************************************************************)
\* z[i] == 1 || z[i] == -1 : the coordinate is pinned (inactive)
IsInactive(zi) == zi = One \/ zi = MinusOne

\* first loop: div_zi = D[I]' z[I]
RECURSIVE div_zi_loop(_, _, _, _)
div_zi_loop(nn, zz, i, dz) ==
  IF i >= nn - 2 THEN dz
  ELSE LET d0 == [dz EXCEPT ![i + 2] = Zero]
           d1 == IF IsInactive(zz[i])
                 THEN [d0 EXCEPT ![i] = DSub(d0[i], zz[i]),
                                 ![i + 1] = DAdd(d0[i + 1], DAdd(zz[i], zz[i])),
                                 ![i + 2] = DSub(d0[i + 2], zz[i])]
                 ELSE d0
       IN  div_zi_loop(nn, zz, i + 1, d1)

compute_div_zi(nn, zz) ==
  div_zi_loop(nn, zz, 0, Array([j \in 0..(nn - 1) |-> IF j < 2 THEN Zero ELSE Undef]))

\* first loop: k = n - 2, k-- for every inactive coordinate
count_active(nn, zz) == (nn - 2) - Cardinality({i \in 0..(nn - 3) : IsInactive(zz[i])})

\* mutant: the coupling of adjacent rows with the wrong sign
FirstOffDiag_sign(i, previous) ==
  IF i - previous = 1 THEN DInt(4)
  ELSE IF i - previous = 2 THEN One
  ELSE Zero

\* off diag: coupling of row i of D with the previous active row
FirstOffDiag(i, previous) ==
  IF i - previous = 1 THEN DInt(-4)
  ELSE IF i - previous = 2 THEN One
  ELSE Zero

\* 2nd off diag: coupling of row i of D with the active row before the previous
SecondOffDiag(i, two_previous) ==
  IF i - two_previous = 2 THEN One ELSE Zero

\* mutant: y[i+2] added instead of subtracted
Target_sign(yy, lam, dz, i) ==
  DAdd(DAdd(DSub(DSub(DDiv(DAdd(DSub(DAdd(yy[i + 1], yy[i + 1]), yy[i]), yy[i + 2]), lam),
                      dz[i + 1]), dz[i + 1]), dz[i]), dz[i + 2])

\* target b[ik] for active row i
Target(yy, lam, dz, i) ==
  DAdd(DAdd(DSub(DSub(DDiv(DSub(DSub(DAdd(yy[i + 1], yy[i + 1]), yy[i]), yy[i + 2]), lam),
                      dz[i + 1]), dz[i + 1]), dz[i]), dz[i + 2])

\* second loop: st = [ik, previous, two_previous, ab, b]
RECURSIVE band_loop(_, _, _, _, _, _, _)
band_loop(nn, yy, zz, lam, dz, k, st) ==
  LET i == st.i IN
  IF i >= nn - 2 THEN st
  ELSE IF ~IsInactive(zz[i])
    THEN band_loop(nn, yy, zz, lam, dz, k,
           [i |-> i + 1,
            ik |-> st.ik + 1,
            previous |-> i,
            two_previous |-> st.previous,
            ab |-> [st.ab EXCEPT ![st.ik + 2 * k] = DInt(6),
                                 ![st.ik + k] = FirstOffDiag(i, st.previous),
                                 ![st.ik] = SecondOffDiag(i, st.two_previous)],
            b |-> [st.b EXCEPT ![st.ik] = Target(yy, lam, dz, i)]])
    ELSE band_loop(nn, yy, zz, lam, dz, k, [st EXCEPT !.i = i + 1])

build_band(nn, yy, zz, lam, dz, k) ==
  band_loop(nn, yy, zz, lam, dz, k,
            [i |-> 0, ik |-> 0, previous |-> -3, two_previous |-> -3,
             ab |-> Array([j \in 0..(3 * nn - 1) |-> Undef]),
             b |-> Array([j \in 0..(nn - 1) |-> Undef])])

(***************************************************************************)
(* LAPACKE_dpbsv(LAPACK_ROW_MAJOR, 'U', k, 2, 1, ab, k, b, 1): solves      *)
(* A X = B for the symmetric positive definite band matrix A whose upper   *)
(* band is stored row-major with leading dimension k,                      *)
(* A(i,j) = ab[(2 + i - j) * k + j] for max(0, j-2) <= i <= j.             *)
(* The solution overwrites b[0..k-1].  Modelled as the exact solution,     *)
(* computed by elimination without pivoting.                               *)
(***************************************************************************)
BandEntry(k, ab, i, j) ==
  LET lo == IF i <= j THEN i ELSE j
      hi == IF i <= j THEN j ELSE i
  IN  IF hi - lo <= 2 THEN ab[(2 + lo - hi) * k + hi] ELSE Zero

RECURSIVE Eliminate(_, _, _)
Eliminate(M, c, k) ==
  IF c >= k - 1 THEN M
  ELSE Eliminate(
         Array([r \in 0..(k - 1) |->
                  IF r > c /\ M[r][c] # Zero
                  THEN Array([j \in 0..k |->
                                DSub(M[r][j], DMul(DDiv(M[r][c], M[c][c]), M[c][j]))])
                  ELSE M[r]]),
         c + 1, k)

RECURSIVE RowDot(_, _, _, _)
RowDot(row, sol, j, k) ==
  IF j >= k THEN Zero ELSE DAdd(DMul(row[j], sol[j]), RowDot(row, sol, j + 1, k))

RECURSIVE BackSub(_, _, _, _)
BackSub(M, r, k, sol) ==
  IF r < 0 THEN sol
  ELSE BackSub(M, r - 1, k,
               [sol EXCEPT ![r] = DDiv(DSub(M[r][k], RowDot(M[r], sol, r + 1, k)), M[r][r])])

Augmented(k, ab, b) ==
  Array([r \in 0..(k - 1) |->
           Array([j \in 0..k |-> IF j = k THEN b[r] ELSE BandEntry(k, ab, r, j)])])

Solution(k, b, sol) == Array([j \in DOMAIN b |-> IF j < k THEN sol[j] ELSE b[j]])

LAPACKE_dpbsv(k, ab, b) ==
  IF k = 0 THEN b
  ELSE Solution(k, b, BackSub(Eliminate(Augmented(k, ab, b), 0, k), k - 1, k,
                              Array([r \in 0..(k - 1) |-> Zero])))

\* third loop: z[i] = b[ik] for the active coordinates, in increasing i
ActiveRank(zz, i) == Cardinality({j \in 0..(i - 1) : ~IsInactive(zz[j])})

write_back(nn, zz, b) ==
  Array([i \in 0..(nn - 3) |->
           IF ~IsInactive(zz[i]) THEN b[ActiveRank(zz, i)] ELSE zz[i]])

\* the whole of update_dual, phase by phase: [z, div_zi, ab, b, k]
dual_written(nn, zz, k, dz, band, sol) ==
  [z |-> write_back(nn, zz, sol), div_zi |-> dz, ab |-> band, b |-> sol, k |-> k]

dual_solved(nn, zz, k, dz, st) ==
  dual_written(nn, zz, k, dz, st.ab, LAPACKE_dpbsv(k, st.ab, st.b))

dual_assembled(nn, yy, zz, lam, k, dz) ==
  dual_solved(nn, zz, k, dz, build_band(nn, yy, zz, lam, dz, k))

update_dual(nn, yy, zz, lam) ==
  dual_assembled(nn, yy, zz, lam, count_active(nn, zz), compute_div_zi(nn, zz))

(***************************************************************************)
(* locate_violators: st = [i, n_vio, vio_index, fit, vio_sort]; fit holds  *)
(* the values stored through the vio_fitness argument.                     *)
(***************************************************************************)
\* mutant: an active coordinate below -1 is not reported
IsViolator_upper(zi, dxi) ==
  IF zi = One THEN DLt(dxi, Zero)
  ELSE IF zi = MinusOne THEN DGt(dxi, Zero)
  ELSE DGt(zi, One)

IsViolator(zi, dxi) ==
  IF zi = One THEN DLt(dxi, Zero)
  ELSE IF zi = MinusOne THEN DGt(dxi, Zero)
  ELSE DGt(zi, One) \/ DLt(zi, MinusOne)

Fitness(zi, dxi, lam) ==
  IF IsInactive(zi) THEN max(DMul(lam, fabs(dxi)), One)
  ELSE max(DMul(lam, fabs(dxi)), fabs(zi))

RECURSIVE locate_loop(_, _, _, _, _)
locate_loop(nn, zz, lam, dx, st) ==
  LET i == st.i IN
  IF i >= nn - 2 THEN st
  ELSE IF IsViolator(zz[i], dx[i])
    THEN locate_loop(nn, zz, lam, dx,
           [i |-> i + 1,
            n_vio |-> st.n_vio + 1,
            vio_index |-> [st.vio_index EXCEPT ![st.n_vio] = i],
            fit |-> [st.fit EXCEPT ![st.n_vio] = Fitness(zz[i], dx[i], lam)],
            vio_sort |-> [st.vio_sort EXCEPT ![st.n_vio] = st.n_vio]])
    ELSE locate_loop(nn, zz, lam, dx, [st EXCEPT !.i = i + 1])

locate_violators(nn, zz, lam, dx, vio_index0, fit0, vio_sort0) ==
  locate_loop(nn, zz, lam, dx,
              [i |-> 0, n_vio |-> 0, vio_index |-> vio_index0, fit |-> fit0,
               vio_sort |-> vio_sort0])

(***************************************************************************)
(* reassign_violators                                                      *)
(***************************************************************************)
ReassignValue(zi) ==
  IF zi = One THEN Zero
  ELSE IF zi = MinusOne THEN Zero
  ELSE IF DGt(zi, One) THEN One
  ELSE IF DLt(zi, MinusOne) THEN MinusOne
  ELSE zi

RECURSIVE reassign_loop(_, _, _, _, _)
reassign_loop(cnt, zz, vio_index, vio_sort, i) ==
  IF i >= cnt THEN zz
  ELSE reassign_loop(cnt,
         [zz EXCEPT ![vio_index[vio_sort[i]]] = ReassignValue(zz[vio_index[vio_sort[i]]])],
         vio_index, vio_sort, i + 1)

reassign_violators(cnt, zz, vio_index, vio_sort) ==
  reassign_loop(cnt, zz, vio_index, vio_sort, 0)

(***************************************************************************)
(* Safeguard queue and proportion update of active_set (one iteration).    *)
(* q = [p, vio_queue, queue_index, min_queue, min_queue_index, max_queue,  *)
(*      max_queue_index]                                                   *)
(***************************************************************************)
\* max_queue = 0; for j: if (vio_queue[j] > max_queue) {max_queue, max_queue_index}
RECURSIVE rescan_max(_, _, _, _)
rescan_max(vq, mm, j, cur) ==
  IF j >= mm THEN cur
  ELSE rescan_max(vq, mm, j + 1,
                  IF vq[j] > cur.val THEN [val |-> vq[j], idx |-> j] ELSE cur)

\* min_queue = n; for j: if (vio_queue[j] < min_queue) {min_queue, min_queue_index}
RECURSIVE rescan_min(_, _, _, _)
rescan_min(vq, mm, j, cur) ==
  IF j >= mm THEN cur
  ELSE rescan_min(vq, mm, j + 1,
                  IF vq[j] < cur.val THEN [val |-> vq[j], idx |-> j] ELSE cur)

\* mutant: max_queue is not recomputed when its slot is overwritten
expand_branch_stale(q, nv, mm, de) ==
  [p |-> min(DMul(de, q.p), One),
   vio_queue |-> [q.vio_queue EXCEPT ![q.queue_index] = nv],
   queue_index |-> (q.queue_index + 1) % mm,
   min_queue |-> nv,
   min_queue_index |-> q.queue_index,
   max_queue |-> q.max_queue,
   max_queue_index |-> q.max_queue_index]

\* if (n_vio < min_queue) { ... }
expand_branch(q, nv, mm, de) ==
  LET vq == [q.vio_queue EXCEPT ![q.queue_index] = nv]
      mx == IF q.queue_index = q.max_queue_index
            THEN rescan_max(vq, mm, 0, [val |-> 0, idx |-> q.max_queue_index])
            ELSE [val |-> q.max_queue, idx |-> q.max_queue_index]
  IN  [p |-> min(DMul(de, q.p), One),
       vio_queue |-> vq,
       queue_index |-> (q.queue_index + 1) % mm,
       min_queue |-> nv,
       min_queue_index |-> q.queue_index,
       max_queue |-> mx.val,
       max_queue_index |-> mx.idx]

\* else if (n_vio >= max_queue) { p = max(delta_s * p, 1 / n_vio); }
shrink_branch(q, nv, ds) ==
  [q EXCEPT !.p = max(DMul(ds, q.p), IntDiv(1, nv))]

\* else { ... }
push_branch(q, nv, nn, mm) ==
  LET vq == [q.vio_queue EXCEPT ![q.queue_index] = nv]
      mx == IF q.queue_index = q.max_queue_index
            THEN rescan_max(vq, mm, 0, [val |-> 0, idx |-> q.max_queue_index])
            ELSE [val |-> q.max_queue, idx |-> q.max_queue_index]
      mn == IF q.queue_index # q.max_queue_index /\ q.queue_index = q.min_queue_index
            THEN rescan_min(vq, mm, 0, [val |-> nn, idx |-> q.min_queue_index])
            ELSE [val |-> q.min_queue, idx |-> q.min_queue_index]
  IN  [p |-> q.p,
       vio_queue |-> vq,
       queue_index |-> (q.queue_index + 1) % mm,
       min_queue |-> mn.val,
       min_queue_index |-> mn.idx,
       max_queue |-> mx.val,
       max_queue_index |-> mx.idx]

\* mutant: a count equal to max_queue is stored
update_queue_strict(q, nv, nn, mm, ds, de) ==
  IF nv < q.min_queue THEN expand_branch(q, nv, mm, de)
  ELSE IF nv > q.max_queue THEN shrink_branch(q, nv, ds)
  ELSE push_branch(q, nv, nn, mm)

update_queue(q, nv, nn, mm, ds, de) ==
  IF nv < q.min_queue THEN expand_branch(q, nv, mm, de)
  ELSE IF nv >= q.max_queue THEN shrink_branch(q, nv, ds)
  ELSE push_branch(q, nv, nn, mm)

\* mutant: the product is truncated, not rounded
n_reassign_trunc(pp, nv) ==
  LET r == (pp[1] * nv) \div pp[2] IN IF r > 1 THEN r ELSE 1

\* n_vio = max((int)round(p * (double)n_vio), 1)
n_reassign(pp, nv) ==
  LET r == round(DMul(pp, DInt(nv))) IN IF r > 1 THEN r ELSE 1

(***************************************************************************)
(* qsort(vio_sort, n_vio, sizeof(int), cmp): cmp orders by descending      *)
(* fitness read through the file-scope pointer.  qsort leaves the order    *)
(* of equal elements unspecified, so every descending arrangement is a     *)
(* possible result; when cmp reads freed or never-written memory the       *)
(* behaviour is undefined and any arrangement is possible.                 *)
(***************************************************************************)
Arrangements(vs, cnt) ==
  {s \in [0..(cnt - 1) -> {vs[j] : j \in 0..(cnt - 1)}] :
     \A a, c \in 0..(cnt - 1) : a # c => s[a] # s[c]}

Readable(buf, vs, cnt) ==
  /\ buf.st = "live"
  /\ \A j \in 0..(cnt - 1) : vs[j] \in DOMAIN buf.data /\ buf.data[vs[j]] # Undef

qsort(vs, cnt, buf) ==
  LET perms == IF Readable(buf, vs, cnt)
               THEN {s \in Arrangements(vs, cnt) :
                       \A a, c \in 0..(cnt - 1) :
                          a < c => ~DLt(buf.data[s[a]], buf.data[s[c]])}
               ELSE Arrangements(vs, cnt)
  IN  {[j \in DOMAIN vs |-> IF j < cnt THEN s[j] ELSE vs[j]] : s \in perms}

(***************************************************************************)
(* State.  Procs are the invocations of active_set.                        *)
(***************************************************************************)
Procs == {1, 2}

VARIABLES
  n, y, lambda, m, delta_s, delta_e, maxiter,   \* arguments of the invocation
  call,                                         \* the arguments as the caller passed them
  x, z, p,                                      \* primal, dual, proportion
  iter,                                         \* loop counter
  vio_queue, queue_index,
  min_queue, min_queue_index,
  max_queue, max_queue_index,
  n_vio, n_active,
  diff_x, div_zi, ab, b, vio_index, vio_sort,   \* buffers owned by the invocation
  vio_fitness,                                  \* file-scope pointer: whose buffer
  heap,                                         \* the vio_fitness allocations
  pc,                                           \* position of each invocation
  ret,                                          \* <<>> or <<returned status>>
  hist                                          \* counts reported by locate_violators

args == <<n, y, lambda, m, delta_s, delta_e, maxiter, call>>
queue == <<vio_queue, queue_index, min_queue, min_queue_index, max_queue, max_queue_index>>
bufs == <<diff_x, div_zi, ab, b, vio_index, vio_sort>>
vars == <<args, x, z, p, iter, queue, n_vio, n_active, bufs, vio_fitness, heap, pc, ret, hist>>

Set(f, self, v) == [f EXCEPT ![self] = v]

(***************************************************************************)
(* Arguments the callers are drawn from.                                   *)
(***************************************************************************)
NSet == 4..MaxN
YVals == {0, 1}
Slopes == {-1, 1}
Ramp(nn, a, c) == [j \in 0..(nn - 1) |-> DInt(a * j + c)]
Spike(nn, at) == [j \in 0..(nn - 1) |-> IF j = at THEN One ELSE Zero]
\* constant and linear inputs (D y = 0) and single spikes
YShapes(nn) ==
  {Ramp(nn, a, c) : a \in Slopes \cup {0}, c \in YVals} \cup {Spike(nn, 2)}
YInputs(nn) ==
  {[j \in 0..(nn - 1) |-> DInt(f[j])] : f \in [0..(nn - 1) -> YVals]} \cup YShapes(nn)
\* z is overwritten wherever it is not exactly +1 or -1, so -1, 0, +1 stand for
\* every initial dual
ZInputs(nn) == [0..(nn - 3) -> {MinusOne, Zero, One}]
ZZero(nn) == [j \in 0..(nn - 3) |-> Zero]
Lambdas == {One, Q(1, 8)}
Props == {Q(1, 2), One}
DeltaS == Q(4, 5)
DeltaE == Q(11, 10)

Idle == [nn |-> 4, yy |-> Ramp(4, 0, 0), zz |-> [j \in 0..1 |-> Zero], lam |-> One,
         pp |-> One, mm |-> 1, mi |-> 1]

\* a single pass, and the longest run the model follows
MaxIters == {1, MaxIter}

\* every y from the all-active start, every initial partition for the shapes
Calls ==
  UNION {[nn : {nn}, yy : YInputs(nn), zz : {ZZero(nn)}, lam : Lambdas,
          pp : Props, mm : 1..MaxM, mi : MaxIters]
           \cup [nn : {nn}, yy : YShapes(nn), zz : ZInputs(nn), lam : Lambdas,
                 pp : Props, mm : 1..MaxM, mi : MaxIters] : nn \in NSet}

InitWith(c, start) ==
  /\ n = [q \in Procs |-> c[q].nn]
  /\ y = [q \in Procs |-> c[q].yy]
  /\ lambda = [q \in Procs |-> c[q].lam]
  /\ m = [q \in Procs |-> c[q].mm]
  /\ delta_s = [q \in Procs |-> DeltaS]
  /\ delta_e = [q \in Procs |-> DeltaE]
  /\ maxiter = [q \in Procs |-> c[q].mi]
  /\ x = [q \in Procs |-> [j \in 0..(c[q].nn - 1) |-> Zero]]
  /\ z = [q \in Procs |-> c[q].zz]
  /\ call = c
  /\ p = [q \in Procs |-> c[q].pp]
  /\ iter = [q \in Procs |-> 0]
  /\ vio_queue = [q \in Procs |-> <<>>]
  /\ queue_index = [q \in Procs |-> 0]
  /\ min_queue = [q \in Procs |-> 0]
  /\ min_queue_index = [q \in Procs |-> 0]
  /\ max_queue = [q \in Procs |-> 0]
  /\ max_queue_index = [q \in Procs |-> 0]
  /\ n_vio = [q \in Procs |-> 0]
  /\ n_active = [q \in Procs |-> 0]
  /\ diff_x = [q \in Procs |-> <<>>]
  /\ div_zi = [q \in Procs |-> <<>>]
  /\ ab = [q \in Procs |-> <<>>]
  /\ b = [q \in Procs |-> <<>>]
  /\ vio_index = [q \in Procs |-> <<>>]
  /\ vio_sort = [q \in Procs |-> <<>>]
  /\ vio_fitness = 0
  /\ heap = [q \in Procs |-> [st |-> "none", data |-> <<>>]]
  /\ pc = [q \in Procs |-> IF q \in start THEN "call" ELSE "idle"]
  /\ ret = [q \in Procs |-> <<>>]
  /\ hist = [q \in Procs |-> <<>>]

\* one invocation
Init == \E c \in Calls : InitWith([q \in Procs |-> IF q = 1 THEN c ELSE Idle], {1})

(***************************************************************************)
(* active_set, lines 106-123: allocate memory, prepare queue variables.    *)
(***************************************************************************)
Enter(self) ==
  /\ pc[self] = "call"
  /\ diff_x' = Set(diff_x, self, [j \in 0..(n[self] - 3) |-> Undef])
  /\ div_zi' = Set(div_zi, self, [j \in 0..(n[self] - 1) |-> Undef])
  /\ vio_fitness' = self
  /\ heap' = Set(heap, self, [st |-> "live", data |-> [j \in 0..(n[self] - 3) |-> Undef]])
  /\ vio_index' = Set(vio_index, self, [j \in 0..(n[self] - 3) |-> -1])
  /\ vio_sort' = Set(vio_sort, self, [j \in 0..(n[self] - 3) |-> -1])
  /\ ab' = Set(ab, self, [j \in 0..(3 * n[self] - 1) |-> Undef])
  /\ b' = Set(b, self, [j \in 0..(n[self] - 1) |-> Undef])
  /\ queue_index' = Set(queue_index, self, 0)
  /\ vio_queue' = Set(vio_queue, self, [j \in 0..(m[self] - 1) |-> n[self]])
  /\ min_queue' = Set(min_queue, self, n[self])
  /\ min_queue_index' = Set(min_queue_index, self, 0)
  /\ max_queue' = Set(max_queue, self, n[self])
  /\ max_queue_index' = Set(max_queue_index, self, m[self] - 1)
  /\ iter' = Set(iter, self, 1)
  /\ pc' = Set(pc, self, "solve")
  /\ UNCHANGED <<args, x, z, p, n_vio, n_active, ret, hist>>

(***************************************************************************)
(* lines 134-136: subspace minimization.                                   *)
(***************************************************************************)
Subspace(self) ==
  /\ pc[self] = "solve"
  /\ \E ud \in {update_dual(n[self], y[self], z[self], lambda[self])} :
     \E xx \in {update_primal(n[self], y[self], ud.z, lambda[self])} :
         /\ n_active' = Set(n_active, self, ud.k)
         /\ z' = Set(z, self, ud.z)
         /\ div_zi' = Set(div_zi, self, ud.div_zi)
         /\ ab' = Set(ab, self, ud.ab)
         /\ b' = Set(b, self, ud.b)
         /\ x' = Set(x, self, xx)
         /\ diff_x' = Set(diff_x, self, Dx(n[self], xx))
  /\ pc' = Set(pc, self, "locate")
  /\ UNCHANGED <<args, p, iter, queue, n_vio, vio_index, vio_sort, vio_fitness, heap,
                 ret, hist>>

(***************************************************************************)
(* free(vio_fitness) on a return path frees whatever the file-scope        *)
(* pointer refers to at that time.  Freeing a block twice is undefined:    *)
(* the call either goes on or the process aborts.                          *)
(***************************************************************************)
Freed(h) == IF vio_fitness = 0 THEN h ELSE [h EXCEPT ![vio_fitness].st = "freed"]
DoubleFree(h) == vio_fitness # 0 /\ h[vio_fitness].st = "freed"

Return(self, h, status) ==
  /\ heap' = Freed(h)
  /\ \/ /\ pc' = Set(pc, self, "done")
        /\ ret' = Set(ret, self, <<status>>)
     \/ /\ DoubleFree(h)
        /\ pc' = [q \in Procs |-> "abort"]
        /\ ret' = ret

(***************************************************************************)
(* lines 141-217: locate the violators (their fitness is stored through    *)
(* the file-scope pointer), update the queue and p, test for termination.  *)
(***************************************************************************)
\* the fitness values as they land in the block the pointer refers to
Stored(buf, fit, cnt) ==
  IF buf.st = "live"
  THEN [buf EXCEPT !.data = [j \in DOMAIN buf.data |->
                               IF j < cnt /\ j \in DOMAIN fit THEN fit[j] ELSE buf.data[j]]]
  ELSE buf

\* line 197: if (n_vio == 0)
Converged(nv) == nv = 0

\* mutant: one pass too many
LoopContinues_extra(it, mi) == it <= mi + 1

\* line 131: iter <= maxiter
LoopContinues(it, mi) == it <= mi

QueueState(self) ==
  [p |-> p[self], vio_queue |-> vio_queue[self], queue_index |-> queue_index[self],
   min_queue |-> min_queue[self], min_queue_index |-> min_queue_index[self],
   max_queue |-> max_queue[self], max_queue_index |-> max_queue_index[self]]

Locate(self) ==
  /\ pc[self] = "locate"
  /\ \E lv \in {locate_violators(n[self], z[self], lambda[self], diff_x[self],
                                   vio_index[self], [j \in 0..(n[self] - 3) |-> Undef],
                                   vio_sort[self])} :
     \E q1 \in {update_queue(QueueState(self), lv.n_vio, n[self], m[self],
                             delta_s[self], delta_e[self])} :
     \E h1 \in {IF vio_fitness = 0 THEN heap
                ELSE [heap EXCEPT ![vio_fitness] = Stored(@, lv.fit, lv.n_vio)]} :
         /\ n_vio' = Set(n_vio, self, lv.n_vio)
         /\ vio_index' = Set(vio_index, self, lv.vio_index)
         /\ vio_sort' = Set(vio_sort, self, lv.vio_sort)
         /\ p' = Set(p, self, q1.p)
         /\ vio_queue' = Set(vio_queue, self, q1.vio_queue)
         /\ queue_index' = Set(queue_index, self, q1.queue_index)
         /\ min_queue' = Set(min_queue, self, q1.min_queue)
         /\ min_queue_index' = Set(min_queue_index, self, q1.min_queue_index)
         /\ max_queue' = Set(max_queue, self, q1.max_queue)
         /\ max_queue_index' = Set(max_queue_index, self, q1.max_queue_index)
         /\ hist' = Set(hist, self, Append(hist[self], <<lv.n_vio, max_queue[self]>>))
         /\ IF Converged(lv.n_vio)
            THEN Return(self, h1, 0)
            ELSE /\ heap' = h1
                 /\ pc' = Set(pc, self, "sort")
                 /\ ret' = ret
  /\ UNCHANGED <<args, x, z, iter, n_active, diff_x, div_zi, ab, b, vio_fitness>>

(***************************************************************************)
(* lines 219-245: sort, reassign, next iteration or return -1.             *)
(***************************************************************************)
SortReassign(self) ==
  /\ pc[self] = "sort"
  /\ \E vs \in qsort(vio_sort[self], n_vio[self],
                     IF vio_fitness = 0 THEN [st |-> "none", data |-> <<>>]
                     ELSE heap[vio_fitness]) :
       \E cnt \in {n_reassign(p[self], n_vio[self])} :
           /\ vio_sort' = Set(vio_sort, self, vs)
           /\ n_vio' = Set(n_vio, self, cnt)
           /\ z' = Set(z, self, reassign_violators(cnt, z[self], vio_index[self], vs))
  /\ iter' = Set(iter, self, iter[self] + 1)
  /\ IF LoopContinues(iter[self] + 1, maxiter[self])
     THEN /\ pc' = Set(pc, self, "solve")
          /\ UNCHANGED <<heap, ret>>
     ELSE Return(self, heap, -1)
  /\ UNCHANGED <<args, x, p, queue, n_active, diff_x, div_zi, ab, b, vio_index,
                 vio_fitness, hist>>

Next == \E self \in {1} : Enter(self) \/ Subspace(self) \/ Locate(self) \/ SortReassign(self)

Spec == Init /\ [][Next]_vars

(***************************************************************************)
(* The band assembly of update_dual on every partition of the dual         *)
(* coordinates: one pass of active_set from every initial z.               *)
(***************************************************************************)
BandCalls ==
  UNION {[nn : {nn}, yy : {Spike(nn, 2)}, zz : ZInputs(nn), lam : {One},
          pp : {One}, mm : {1}, mi : {1}] : nn \in 4..MaxNBand}

InitBand == \E c \in BandCalls : InitWith([q \in Procs |-> IF q = 1 THEN c ELSE Idle], {1})

SpecBand == InitBand /\ [][Next]_vars

(***************************************************************************)
(* Two invocations of active_set on disjoint caller arrays, their steps    *)
(* interleaved.                                                            *)
(***************************************************************************)
StepUp(nn, at) == [j \in 0..(nn - 1) |-> IF j >= at THEN One ELSE Zero]

ConcCalls ==
  [nn : {5}, yy : {StepUp(5, 2), StepUp(5, 3)}, zz : {ZZero(5)}, lam : {Q(1, 8)},
   pp : {Q(1, 2)}, mm : {1}, mi : {1, 2}]

InitConc == \E c \in [Procs -> ConcCalls] : InitWith(c, Procs)

NextConc ==
  \E self \in Procs : Enter(self) \/ Subspace(self) \/ Locate(self) \/ SortReassign(self)

SpecConc == InitConc /\ [][NextConc]_vars

(***************************************************************************)
(* Properties.  The sequential claims are about invocation 1.              *)
(***************************************************************************)
DLe(a, c) == ~DLt(c, a)
Done == pc[1] = "done"
Counts == [k \in 1..Len(hist[1]) |-> hist[1][k][1]]
LastCount == hist[1][Len(hist[1])][1]
LastMaxQueue == hist[1][Len(hist[1])][2]

\* entry (i, j) of the second-difference operator D: row i is -1, 2, -1 at i, i+1, i+2
DEntry(i, j) == IF j = i \/ j = i + 2 THEN -1 ELSE IF j = i + 1 THEN 2 ELSE 0

RECURSIVE DTz(_, _, _)
\* (D' z)[j], summed over the rows 0..i
DTz(zz, j, i) ==
  IF i < 0 THEN Zero ELSE DAdd(DMul(DInt(DEntry(i, j)), zz[i]), DTz(zz, j, i - 1))

\* (D x)[i] from the definition of D
DxAt(xx, i) == DSub(DSub(DMul(DInt(2), xx[i + 1]), xx[i]), xx[i + 2])

(* C1: after every call of active_set, returning 0 or -1, the returned x and
   z satisfy x[j] = y[j] - lambda * (D' z)[j] for every j in 0..n-1. *)
C1_PrimalDualConsistent ==
  Done => \A j \in 0..(n[1] - 1) :
            x[1][j] = DSub(y[1][j], DMul(lambda[1], DTz(z[1], j, n[1] - 3)))

\* a count of the steps the call has left at most; 0 once it has returned
Rank ==
  IF pc[1] = "done" THEN 0
  ELSE IF pc[1] = "call" THEN 3 * maxiter[1] + 1
  ELSE 3 * (maxiter[1] - iter[1])
         + (IF pc[1] = "solve" THEN 3 ELSE IF pc[1] = "locate" THEN 2 ELSE 1)

\* the status returned and the counts reported so far (iter is one more than
\* the number of reassignments done)
C2_Status ==
  /\ Rank >= 0
  /\ Len(hist[1]) <= maxiter[1]
  /\ \A k \in 1..(Len(hist[1]) - 1) : Counts[k] > 0
  /\ Done => ret[1] \in {<<0>>, <<-1>>}
  /\ ~Done => ret[1] = <<>> /\ (Len(hist[1]) > 0 /\ pc[1] # "solve" => LastCount > 0)
  /\ ret[1] = <<0>> => LastCount = 0 /\ iter[1] = Len(hist[1])
  /\ ret[1] = <<-1>> <=>
       Done /\ Len(hist[1]) = maxiter[1] /\ \A k \in 1..Len(hist[1]) : Counts[k] > 0

(* C2: active_set stops after at most maxiter iterations (every step lowers
   the non-negative Rank, which is 0 only after the return); it returns 0 in
   the first iteration that reports n_vio = 0, without reassigning in that
   iteration; it returns -1 exactly when all maxiter iterations reported
   n_vio > 0; it returns nothing else. *)
C2_Termination == []C2_Status /\ [][Rank' < Rank]_vars

\* converged in the third and last iteration allowed
C2_Witness ==
  /\ ret[1] = <<0>>
  /\ Len(hist[1]) = 3
  /\ maxiter[1] = 3

(* C3: whenever active_set returns 0, every z[i] has |z[i]| <= 1, every
   z[i] = +1 has (D x)[i] >= 0 and every z[i] = -1 has (D x)[i] <= 0. *)
C3_FeasibleOnConvergence ==
  ret[1] = <<0>> =>
    \A i \in 0..(n[1] - 3) :
      /\ DLe(fabs(z[1][i]), One)
      /\ z[1][i] = One => DLe(Zero, DxAt(x[1], i))
      /\ z[1][i] = MinusOne => DLe(DxAt(x[1], i), Zero)

\* converged after a reassignment, with a pinned and a free coordinate
C3_Witness ==
  /\ ret[1] = <<0>>
  /\ Len(hist[1]) >= 2
  /\ \E i, j \in 0..(n[1] - 3) :
       /\ z[1][i] = One /\ DLt(Zero, DxAt(x[1], i))
       /\ z[1][j] # One /\ z[1][j] # MinusOne /\ z[1][j] # Zero

\* the integer k with k <= a < k + 1
FloorOf(a, hi) == CHOOSE k \in 0..hi : DLe(DInt(k), a) /\ DLt(a, DInt(k + 1))

(* C4: in every iteration with n_vio > 0 exactly
   n_reassign = max(floor(p * n_vio + 0.5), 1) distinct violators are
   reassigned, 1 <= n_reassign <= n_vio, they are taken from the first n_vio
   entries of vio_sort and vio_index, and each of them changes value:
   +1 and -1 become 0, z > 1 becomes +1, z < -1 becomes -1. *)
C4_Reassignment ==
  [][pc[1] = "sort" =>
       LET nv == n_vio[1]
           fl == FloorOf(DAdd(DMul(p[1], DInt(nv)), Q(1, 2)), nv + 1)
           cnt == IF fl > 1 THEN fl ELSE 1
           changed == {i \in 0..(n[1] - 3) : z'[1][i] # z[1][i]}
       IN  /\ nv > 0
           /\ 1 <= cnt /\ cnt <= nv
           /\ n_vio'[1] = cnt
           /\ Cardinality(changed) = cnt
           /\ \A j \in 0..(cnt - 1) : vio_sort'[1][j] \in 0..(nv - 1)
           /\ changed = {vio_index[1][vio_sort'[1][j]] : j \in 0..(cnt - 1)}
           /\ \A i \in changed :
                /\ z[1][i] \in {One, MinusOne} => z'[1][i] = Zero
                /\ DGt(z[1][i], One) => z'[1][i] = One
                /\ DLt(z[1][i], MinusOne) => z'[1][i] = MinusOne
  ]_vars

\* two of three violators have just been reassigned, one released, one pinned
C4_Witness ==
  /\ pc[1] = "solve"
  /\ Len(hist[1]) >= 1
  /\ LastCount = 3
  /\ n_vio[1] = 2
  /\ \E i, j \in 0..(n[1] - 3) : z[1][i] = Zero /\ IsInactive(z[1][j])

SetMin(S) == CHOOSE v \in S : \A w \in S : v <= w
SetMax(S) == CHOOSE v \in S : \A w \in S : v >= w
QueueValues == {vio_queue[1][j] : j \in 0..(m[1] - 1)}

(* C5: for every queue size m and every sequence of violator counts, after
   the queue update of each iteration min_queue is the smallest and max_queue
   the largest value stored in vio_queue, and vio_queue[min_queue_index] =
   min_queue, vio_queue[max_queue_index] = max_queue. *)
C5_QueueExtrema ==
  pc[1] \in {"solve", "locate", "sort", "done"} =>
    /\ min_queue[1] = SetMin(QueueValues)
    /\ max_queue[1] = SetMax(QueueValues)
    /\ min_queue_index[1] \in 0..(m[1] - 1)
    /\ max_queue_index[1] \in 0..(m[1] - 1)
    /\ vio_queue[1][min_queue_index[1]] = min_queue[1]
    /\ vio_queue[1][max_queue_index[1]] = max_queue[1]

\* the third count went into the slot that held the minimum, which was rescanned
C5_Witness ==
  /\ m[1] = 2
  /\ Len(hist[1]) = 3
  /\ Counts[1] <= Counts[3] /\ Counts[3] < Counts[2]
  /\ vio_queue[1] = [j \in 0..1 |-> IF j = 0 THEN Counts[3] ELSE Counts[2]]
  /\ min_queue_index[1] = 0

\* the same with a queue of one slot, which is both the minimum and the maximum
C5_WitnessOneSlot ==
  /\ m[1] = 1
  /\ Len(hist[1]) >= 2
  /\ vio_queue[1][0] = Counts[2]
  /\ Counts[2] < Counts[1]

\* the counts stored by the driver: those observed with n_vio < max_queue
IsPush(h) == h[1] < h[2]
Pushed == SelectSeq(hist[1], IsPush)
LastOf(S) == CHOOSE v \in S : \A w \in S : v >= w

\* the last m entries of a sequence of counts, padded with the sentinel n
LastM(seq) ==
  [k \in 1..m[1] |->
     IF Len(seq) - m[1] + k >= 1 THEN seq[Len(seq) - m[1] + k][1] ELSE n[1]]
Occurrences(f, D, v) == Cardinality({k \in D : f[k] = v})
SameContents(seq) ==
  \A v \in 0..n[1] :
    Occurrences(vio_queue[1], 0..(m[1] - 1), v) = Occurrences(LastM(seq), 1..m[1], v)

(* C6, as claimed: after the queue update of every iteration vio_queue holds
   exactly the last m violator counts observed (the sentinel n where fewer
   than m were observed). *)
C6_LastObserved ==
  pc[1] \in {"sort", "done"} => SameContents(hist[1])

(* C6, amended: after the queue update of every iteration vio_queue holds
   exactly the last m violator counts that were observed with
   n_vio < max_queue (the sentinel n where fewer than m were), the k-th of
   them in slot (k-1) mod m, and queue_index is the slot after the latest;
   a count observed with n_vio >= max_queue is not stored. *)
C6_LastPushed ==
  pc[1] \in {"sort", "done"} =>
    /\ SameContents(Pushed)
    /\ queue_index[1] = Len(Pushed) % m[1]
    /\ \A j \in 0..(m[1] - 1) :
         LET ks == {k \in 1..Len(Pushed) : (k - 1) % m[1] = j}
         IN  vio_queue[1][j] = IF ks = {} THEN n[1] ELSE Pushed[LastOf(ks)][1]

\* a count was observed and not stored, after the queue had wrapped around
C6_Witness ==
  /\ pc[1] \in {"sort", "done"}
  /\ Len(hist[1]) = 3
  /\ Len(Pushed) = 2
  /\ m[1] = 1

(* C7: whenever the driver takes the shrink branch (n_vio >= max_queue) the
   new proportion is at least the real reciprocal 1 / n_vio, and p stays in
   (0, 1]. *)
C7_ShrinkFloor ==
  /\ pc[1] \in {"solve", "locate", "sort", "done"} => DLt(Zero, p[1]) /\ DLe(p[1], One)
  /\ pc[1] = "sort" /\ LastCount >= LastMaxQueue => DLe(Q(1, LastCount), p[1])

\* D y = 0: y is constant or linear
IsAffine(yy, nn) == \A i \in 0..(nn - 3) : DxAt(yy, i) = Zero

(* C9: for every input y with D y = 0 and initial z = 0, active_set converges
   in its first iteration: it returns 0 with x = y and z = 0, whatever p, m,
   lambda and maxiter are. *)
C9_AffineRecovered ==
  IsAffine(y[1], n[1]) /\ call[1].zz = ZZero(n[1]) =>
    /\ pc[1] # "sort"
    /\ Len(hist[1]) <= 1
    /\ Done => /\ ret[1] = <<0>>
               /\ iter[1] = 1
               /\ x[1] = y[1]
               /\ z[1] = ZZero(n[1])

\* a decreasing ramp, recovered in one iteration of three allowed
C9_Witness ==
  /\ Done
  /\ call[1].zz = ZZero(n[1])
  /\ y[1] = Ramp(5, -1, 1)
  /\ lambda[1] = Q(1, 8)
  /\ maxiter[1] = 3
  /\ x[1] = y[1]

\* the active coordinates of zz in increasing order: Nth(zz, nn, r) is the r-th
ActiveSet(zz, nn) == {i \in 0..(nn - 3) : ~IsInactive(zz[i])}
Nth(zz, nn, r) ==
  CHOOSE i \in ActiveSet(zz, nn) : Cardinality({a \in ActiveSet(zz, nn) : a < i}) = r

RECURSIVE RowProduct(_, _, _)
\* inner product of rows i and j of D over the columns 0..col
RowProduct(i, j, col) ==
  IF col < 0 THEN 0 ELSE DEntry(i, col) * DEntry(j, col) + RowProduct(i, j, col - 1)

(* C10: for every partition of 0..n-3 into active and inactive coordinates
   the band update_dual writes into ab is the upper band of D_A D_A' in the
   order of increasing dual index (k active rows, entry (r, c) of the band at
   ab[(2 + r - c) * k + c] for c - 2 <= r <= c), and D_A D_A' is zero outside
   that band. *)
C10_BandIsGram ==
  [][pc[1] = "solve" =>
       LET k == Cardinality(ActiveSet(z[1], n[1]))
       IN  /\ n_active'[1] = k
           /\ \A r, c \in 0..(k - 1) :
                r <= c =>
                  DInt(RowProduct(Nth(z[1], n[1], r), Nth(z[1], n[1], c), n[1] - 1))
                    = IF c - r <= 2 THEN ab'[1][(2 + r - c) * k + c] ELSE Zero
  ]_vars

\* active rows 0, 2, 3, 4 of seven: couplings 1, -4, -4 and 0, 1
C10_Witness ==
  /\ pc[1] = "locate"
  /\ n[1] = 7
  /\ ActiveSet(call[1].zz, 7) = {0, 2, 3, 4}
  /\ ab[1][5] = One /\ ab[1][6] = DInt(-4) /\ ab[1][7] = DInt(-4)
  /\ ab[1][2] = Zero /\ ab[1][3] = One

(***************************************************************************)
(* What a call returns when it runs alone: every [ret, x, z] the loop of   *)
(* active_set can end with from dual zz, queue state q and pass it.        *)
(***************************************************************************)
RECURSIVE SoloFrom(_, _, _, _)
SoloNext(c, q, it, xx, zz) ==
  IF LoopContinues(it + 1, c.mi) THEN SoloFrom(c, zz, q, it + 1)
  ELSE {[ret |-> -1, x |-> xx, z |-> zz]}

SoloSorted(c, q, it, zz, xx, lv) ==
  UNION {SoloNext(c, q, it, xx,
                  reassign_violators(n_reassign(q.p, lv.n_vio), zz, lv.vio_index, vs)) :
           vs \in qsort(lv.vio_sort, lv.n_vio, [st |-> "live", data |-> lv.fit])}

SoloLocated(c, q, it, zz, xx, lv) ==
  IF Converged(lv.n_vio) THEN {[ret |-> 0, x |-> xx, z |-> zz]}
  ELSE SoloSorted(c, update_queue(q, lv.n_vio, c.nn, c.mm, DeltaS, DeltaE), it, zz, xx, lv)

SoloPrimal(c, q, it, zz, xx) ==
  SoloLocated(c, q, it, zz, xx,
              locate_violators(c.nn, zz, c.lam, Dx(c.nn, xx),
                               [j \in 0..(c.nn - 3) |-> -1],
                               [j \in 0..(c.nn - 3) |-> Undef],
                               [j \in 0..(c.nn - 3) |-> -1]))

SoloDual(c, q, it, zz) == SoloPrimal(c, q, it, zz, update_primal(c.nn, c.yy, zz, c.lam))

SoloFrom(c, zz, q, it) == SoloDual(c, q, it, update_dual(c.nn, c.yy, zz, c.lam).z)

SoloResults(c) ==
  SoloFrom(c, c.zz,
           [p |-> c.pp, vio_queue |-> [j \in 0..(c.mm - 1) |-> c.nn], queue_index |-> 0,
            min_queue |-> c.nn, min_queue_index |-> 0,
            max_queue |-> c.nn, max_queue_index |-> c.mm - 1], 1)

(* C8: two invocations of active_set that run interleaved on disjoint caller
   arrays share no mutable state: the fitness buffer an invocation sorts by
   is the one it allocated and filled itself, and each invocation returns an
   x, z and status that it can return when run alone. *)
C8_Reentrant ==
  \A self \in Procs :
    /\ pc[self] # "abort"
    /\ pc[self] = "sort" =>
         /\ vio_fitness = self
         /\ heap[self].st = "live"
         /\ \A j \in 0..(n_vio[self] - 1) :
              heap[self].data[j] = Fitness(z[self][vio_index[self][j]],
                                           diff_x[self][vio_index[self][j]], lambda[self])
    /\ pc[self] = "done" =>
         [ret |-> ret[self][1], x |-> x[self], z |-> z[self]] \in SoloResults(call[self])

====
